---- MODULE Spec2Model ----
(***************************************************************************)
(* A model of quartustcl: a Python session object (QuartusTcl) that drives *)
(* a Tcl shell subprocess over a line-oriented pipe, frames each request   *)
(* with start/middle/end sentinel lines, and uses an embedded Tcl          *)
(* interpreter to parse Tcl lists.                                         *)
(*                                                                         *)
(* Text is modelled as a sequence of atoms.  An atom is either one of the  *)
(* characters that Tcl or the Python string methods treat specially        *)
(* (space, newline, braces, brackets, dollar, backslash, double quote,     *)
(* semicolon) or a run of ordinary characters that no operation of the     *)
(* program ever splits (a word such as "puts", a digit string, "k").       *)
(***************************************************************************)
EXTENDS Integers, Sequences, FiniteSets, TLC

\* ------------------------------------------------------------------ bounds

\* Longest argument string drawn exhaustively from the alphabet.
MaxLen == 2

\* Largest wall-clock reading; the clock never runs backwards.
MaxClock == 1

\* Most requests issued on one session.
MaxRequests == 2

\* Most levels a list is parsed to.
MaxLevels == 2

\* ------------------------------------------------------------------- atoms

SP == " "
NL == "\n"
LB == "{"
RB == "}"
LK == "["
RK == "]"
DOL == "$"
BS == "\\"
DQ == "\""
SEMI == ";"

\* The character U+00FF, which \xff stands for in a Tcl script, and the
\* byte FF, which a channel with binary encoding writes for it and which
\* is no UTF-8.
UML == "U+00FF"
RAW == "0xFF"

Whitespace == {SP, NL}
Special == {SP, NL, LB, RB, LK, RK, DOL, BS, DQ, SEMI}

\* Ordinary atoms that are not identifier characters of a Tcl variable name.
Punctuation == {"-nocommands", "-novariables", "-nonewline", "+", "/", "-"}

IsNameChar(c) == c \notin Special /\ c \notin Punctuation

\* ------------------------------------------------------------ finite sets

\* The least and the greatest element of a non-empty finite set of integers.
Min(S) == CHOOSE x \in S : \A y \in S : x <= y
Max(S) == CHOOSE x \in S : \A y \in S : y <= x

\* The least element of S, or d when S is empty.
FirstOf(S, d) == IF S = {} THEN d ELSE Min(S)

\* The elements of a finite set of integers in increasing order.
Sorted(S) ==
    [k \in 1..Cardinality(S) |-> CHOOSE i \in S : Cardinality({j \in S : j < i}) = k - 1]

\* The atoms of s that are not the empty string.
NonEmpty(s) == SelectSeq(s, LAMBDA a : a # "")

\* --------------------------------------------------- Python string methods

RECURSIVE ConcatRange(_, _, _)
ConcatRange(parts, a, b) ==
    IF a > b THEN <<>>
    ELSE IF a = b THEN parts[a]
    ELSE ConcatRange(parts, a, (a + b) \div 2) \o ConcatRange(parts, (a + b) \div 2 + 1, b)

\* ''.join(parts)
Concat(parts) == ConcatRange(parts, 1, Len(parts))

RECURSIVE JoinRange(_, _, _)
JoinRange(parts, a, b) ==
    IF a > b THEN <<>>
    ELSE IF a = b THEN parts[a]
    ELSE JoinRange(parts, a, (a + b) \div 2) \o <<SP>>
         \o JoinRange(parts, (a + b) \div 2 + 1, b)

\* ' '.join(parts)
Join(parts) == JoinRange(parts, 1, Len(parts))

\* The text that holds the given words with one space between them.
Words(ws) == Join([k \in 1..Len(ws) |-> <<ws[k]>>])

\* str.split(): the maximal runs of non-whitespace characters
Split(s) ==
    LET starts == {i \in 1..Len(s) : s[i] \notin Whitespace /\ (i = 1 \/ s[i - 1] \in Whitespace)}
        end(i) == Min({j \in i..Len(s) : j = Len(s) \/ s[j + 1] \in Whitespace})
        order == Sorted(starts)
    IN [k \in 1..Len(order) |-> SubSeq(s, order[k], end(order[k]))]

\* str.strip()
Strip(s) ==
    LET live == {i \in 1..Len(s) : s[i] \notin Whitespace}
    IN IF live = {} THEN <<>> ELSE SubSeq(s, Min(live), Max(live))

\* str.startswith(p)
StartsWith(s, p) == Len(s) >= Len(p) /\ SubSeq(s, 1, Len(p)) = p

\* str.endswith(p)
EndsWith(s, p) == Len(s) >= Len(p) /\ SubSeq(s, Len(s) - Len(p) + 1, Len(s)) = p

\* c in data
Contains(s, c) == \E i \in 1..Len(s) : s[i] = c

\* The first position at or after i that holds c, or 0.
FindChar(s, i, c) == FirstOf({j \in i..Len(s) : s[j] = c}, 0)

\* -------------------------------------------------------- QuartusTcl.quote

\* data.replace('\\', '\\\\').replace('{', '\\{').replace('}', '\\}')
Escape(data) ==
    NonEmpty([k \in 1..(2 * Len(data)) |->
                 IF k % 2 = 0 THEN data[k \div 2]
                 ELSE IF data[(k + 1) \div 2] \in {BS, LB, RB} THEN BS ELSE ""])

quote(data) ==
    IF Contains(data, LB) \/ Contains(data, RB)
    THEN <<LK, "subst", SP, "-nocommands", SP, "-novariables", SP, LB>>
         \o Escape(data) \o <<RB, RK>>
    ELSE <<LB>> \o data \o <<RB>>

\* ------------------------------------------------ Tcl: backslash sequences

\* The character a two-character backslash sequence stands for
\* (TclParseBackslash): \n is a newline, \xff the character U+00FF, any
\* other character is itself.
BackslashChar(c) == IF c = "n" THEN NL ELSE IF c = "xff" THEN UML ELSE c

\* Whether s[q] is the second character of a backslash sequence: it
\* follows a run of backslashes of odd length.
Escaped(s, q) ==
    /\ q > 1
    /\ s[q - 1] = BS
    /\ \E k \in 1..(q - 1) :
          /\ k % 2 = 1
          /\ \A m \in (q - k)..(q - 1) : s[m] = BS
          /\ (q - k = 1 \/ s[q - k - 1] # BS)

\* Whether s[q] is a backslash that starts a backslash sequence.
Escaping(s, q) == s[q] = BS /\ ~Escaped(s, q)

\* Whether s[q] is one of the blanks that a backslash-newline sequence
\* takes with it.
ContinuationBlank(s, q) ==
    /\ s[q] = SP
    /\ \E p \in 1..(q - 2) :
          /\ s[p] = BS
          /\ s[p + 1] = NL
          /\ \A m \in (p + 2)..q : s[m] = SP
          /\ ~Escaped(s, p)

\* subst -nocommands -novariables: only backslash sequences are replaced.
BackslashSubst(s) ==
    NonEmpty([q \in 1..Len(s) |->
                 CASE Escaped(s, q) -> (IF s[q] = NL THEN SP ELSE BackslashChar(s[q]))
                   [] s[q] = BS -> (IF q = Len(s) THEN BS ELSE "")
                   [] ContinuationBlank(s, q) -> ""
                   [] OTHER -> s[q]])

\* The braces of s from i on that no backslash hides.
Braces(s, i, c) == {k \in i..Len(s) : s[k] = c /\ ~Escaped(s, k)}

\* s[i-1] opened a brace: the position of the brace that closes it, or 0
\* when there is none.  A backslash hides the next character from the count.
MatchBrace(s, i) ==
    LET opens == Braces(s, i, LB)
        closes == Braces(s, i, RB)
    IN FirstOf({j \in closes : Cardinality({k \in closes : k <= j})
                               = Cardinality({k \in opens : k < j}) + 1}, 0)

\* The position of the double quote that closes a quoted list element
\* whose content starts at i, or 0.
MatchQuote(s, i) == FirstOf({j \in i..Len(s) : s[j] = DQ /\ ~Escaped(s, j)}, 0)

\* The first position at or after i that holds whitespace outside a
\* backslash sequence, or Len(s) + 1.
WordEnd(s, i) ==
    FirstOf({j \in i..Len(s) : s[j] \in Whitespace /\ ~Escaped(s, j)
                               /\ ~ContinuationBlank(s, j)}, Len(s) + 1)

SkipSpace(s, i) == FirstOf({j \in i..Len(s) : s[j] \notin Whitespace}, Len(s) + 1)

\* ------------------------------------------------------- Tcl: list grammar

\* TclFindElement: the position of the last character of the element that
\* starts at s[i] (the brace or the quote that closes it), 0 when a brace
\* or a quote stays open.
ElementEnd(s, i) ==
    CASE s[i] = LB -> MatchBrace(s, i + 1)
      [] s[i] = DQ -> MatchQuote(s, i + 1)
      [] OTHER -> WordEnd(s, i) - 1

\* The value of the element s[i..j]: a braced element is verbatim, a quoted
\* or a bare one has its backslash sequences replaced; nothing else is
\* substituted.
ElementValue(s, i, j) ==
    IF s[i] = LB THEN SubSeq(s, i + 1, j - 1)
    ELSE BackslashSubst(IF s[i] = DQ THEN SubSeq(s, i + 1, j - 1) ELSE SubSeq(s, i, j))

RECURSIVE ListParseFrom(_, _, _)
\* TclFindElement, repeated: the elements of the list text s from i0 on.
ListParseFrom(s, i0, acc) ==
    LET Element(i, j) ==
            CASE i > Len(s) -> [ok |-> TRUE, elems |-> acc]
              [] i <= Len(s) /\ s[i] \in {LB, DQ}
                 /\ (j = 0 \/ (j < Len(s) /\ s[j + 1] \notin Whitespace)) ->
                     [ok |-> FALSE, elems |-> <<>>]
              [] OTHER -> ListParseFrom(s, j + 1, Append(acc, ElementValue(s, i, j)))
    IN Element(SkipSpace(s, i0), ElementEnd(s, SkipSpace(s, i0)))

ListParse(s) == ListParseFrom(s, 1, <<>>)

\* TclScanElement: the positions of e it looks at.  After a backslash it
\* passes over a brace, a backslash or a newline.
Scanned(e, q) == ~(Escaped(e, q) /\ e[q] \in {LB, RB, BS, NL})

\* TclScanElement: [none, brace, esc, req] are forbidNone, preferBrace,
\* preferEscape, requireEscape.
ScanElement(e) ==
    LET n == Len(e)
        seen == {q \in 1..n : Scanned(e, q)}
        opens == {q \in seen : e[q] = LB}
        closes == {q \in seen : e[q] = RB}
        depth(q) == Cardinality({k \in opens : k <= q}) - Cardinality({k \in closes : k <= q})
        first == e[1] \in {LB, DQ}
        plain == \E q \in seen : e[q] = BS /\ q < n /\ e[q + 1] # NL
        toEscape == \E q \in seen : e[q] \in {RK, DQ}
        toBrace == \E q \in seen : e[q] \in {LK, DOL, SEMI, SP, NL}
    IN [none |-> first \/ plain \/ toEscape \/ toBrace,
        brace |-> first \/ plain \/ toBrace,
        esc |-> toEscape,
        req |-> \/ \E q \in closes : depth(q) < 0
                \/ Cardinality(opens) # Cardinality(closes)
                \/ \E q \in seen : e[q] = BS /\ (q = n \/ e[q + 1] = NL)]

\* TclConvertElement with backslashes: braces are escaped only when all
\* is (CONVERT_ESCAPE), not in the mode that spares them (CONVERT_MASK).
EscapeElement(e, braces) ==
    NonEmpty([k \in 1..(2 * Len(e)) |->
                 LET c == e[(k + 1) \div 2]
                     esc == c \in {RK, LK, DOL, SEMI, SP, BS, DQ, NL}
                            \/ (braces /\ c \in {LB, RB})
                 IN IF k % 2 = 1 THEN (IF esc THEN BS ELSE "")
                    ELSE IF c = NL THEN "n" ELSE c])

\* One element as Tcl's list command formats it.
ConvertElement(e) ==
    LET Convert(f) ==
            CASE f.req \/ (f.none /\ f.esc /\ ~f.brace) -> EscapeElement(e, f.req)
              [] ~f.req /\ f.none /\ ~(f.esc /\ ~f.brace) -> <<LB>> \o e \o <<RB>>
              [] OTHER -> e
    IN IF e = <<>> THEN <<LB, RB>> ELSE Convert(ScanElement(e))

\* [list e1 e2 ...]
ListFormat(elems) == Join([k \in 1..Len(elems) |-> ConvertElement(elems[k])])

\* ------------------------------------------------- Tcl: command syntax scan

\* Whether a word separator starts at s[i]: a space, or a backslash-newline.
BlankAt(s, i) ==
    i <= Len(s) /\ (s[i] = SP \/ (s[i] = BS /\ i < Len(s) /\ s[i + 1] = NL))

\* The first position at or after i that is not inside a word separator:
\* a space, or a backslash-newline with the blanks after it.
SkipWordGap(s, i) ==
    FirstOf({j \in i..Len(s) : ~(s[j] = SP \/ (s[j] = NL /\ Escaped(s, j))
                                   \/ (Escaping(s, j) /\ j < Len(s) /\ s[j + 1] = NL))},
            Len(s) + 1)

\* Whether the command ends at s[i]: the end of the text, a newline, a
\* semicolon or, inside a command substitution, the closing bracket.  br
\* is the position of the bracket that opened the substitution, 0 outside
\* one.
CommandEndAt(s, i, br) ==
    i > Len(s) \/ s[i] \in {NL, SEMI} \/ (br > 0 /\ s[i] = RK)

\* The first position at or after i that holds no blank and no terminator.
SkipCommandGap(s, i) == FirstOf({j \in i..Len(s) : s[j] \notin {SP, NL, SEMI}}, Len(s) + 1)

\* The position after the run of variable-name characters that starts at i.
NameEnd(s, i) == FirstOf({j \in i..Len(s) : ~IsNameChar(s[j])}, Len(s) + 1)

\* Whether a variable substitution starts at s[j] = "$".
VarAt(s, j) ==
    /\ s[j] = DOL
    /\ j < Len(s)
    /\ (s[j + 1] = LB \/ NameEnd(s, j + 1) > j + 1)

ErrMissingBrace == Words(<<"missing", "close-brace">>)
ErrMissingQuote == Words(<<"missing", DQ>>)
ErrMissingBracket == Words(<<"missing", "close-bracket">>)
ErrMissingVarBrace == Words(<<"missing", "close-brace", "for", "variable", "name">>)
ErrExtraBrace == Words(<<"extra", "characters", "after", "close-brace">>)
ErrExtraQuote == Words(<<"extra", "characters", "after", "close-quote">>)

\* The syntax errors that leave a command open for more input
\* (Tcl_Parse.incomplete).
IncompleteErrors == {ErrMissingBrace, ErrMissingQuote, ErrMissingBracket, ErrMissingVarBrace}

\* What a scan reports: the position after what it has scanned or, for a
\* syntax error, the position the error is reported at (Tcl_Parse.term).
Scanned_(next) == [ok |-> TRUE, next |-> next, err |-> <<>>]
Unscanned(at, err) == [ok |-> FALSE, next |-> at, err |-> err]

\* Where Tcl_ParseTokens stops next in a bare or a double-quoted word from
\* i: at a command substitution, at a ${name} substitution, at the quote
\* that closes a quoted word or at the end of a bare word; Len(s) + 1 when
\* it stops nowhere.  Backslash sequences hide what follows them.
TokenStop(s, i, open, br) ==
    FirstOf({k \in i..Len(s) :
               /\ ~Escaped(s, k)
               /\ \/ s[k] = LK
                  \/ (s[k] = DOL /\ k < Len(s) /\ s[k + 1] = LB)
                  \/ (open > 0 /\ s[k] = DQ)
                  \/ (open = 0 /\ (BlankAt(s, k) \/ CommandEndAt(s, k, br)))},
            Len(s) + 1)

\* Whether a word may end before s[i].
WordEndAt(s, i, br) == BlankAt(s, i) \/ CommandEndAt(s, i, br)

RECURSIVE ScanTokens(_, _, _, _)
RECURSIVE ScanWords(_, _, _, _)
RECURSIVE ScanScript(_, _, _)

\* Tcl_ParseTokens over a bare or a double-quoted word from i:
\* [ok, next, err], next being the position after the word.  open is the
\* position of the quote that opened the word, 0 for a bare word.  The
\* scan goes from one command or ${name} substitution to the next.
ScanTokens(s, i, open, br) ==
    LET Stop(j, b, v) ==
            CASE j > Len(s) /\ open > 0 -> Unscanned(open, ErrMissingQuote)
              [] j > Len(s) /\ open = 0 -> Scanned_(j)
              [] j <= Len(s) /\ s[j] = LK ->
                     IF b.ok THEN ScanTokens(s, b.next, open, br) ELSE b
              [] j <= Len(s) /\ s[j] = DOL ->
                     IF v = 0 THEN Unscanned(j + 1, ErrMissingVarBrace)
                     ELSE ScanTokens(s, v + 1, open, br)
              [] j <= Len(s) /\ s[j] = DQ /\ open > 0 -> Scanned_(j + 1)
              [] OTHER -> Scanned_(j)
        At(j) == Stop(j, ScanScript(s, j + 1, j), FindChar(s, j + 2, RB))
    IN At(TokenStop(s, i, open, br))

\* The word of a command that starts at s[i]: [ok, next, err, word], next
\* being the position after the word and word its kind and the positions
\* of its content.
WordAt(s, i, br) ==
    LET Word(kind, from, to, next) ==
            [ok |-> TRUE, next |-> next, err |-> <<>>,
             word |-> [kind |-> kind, from |-> from, to |-> to]]
        Fail(at, err) == [ok |-> FALSE, next |-> at, err |-> err, word |-> <<>>]
        Braced(j) ==
            CASE j = 0 -> Fail(i, ErrMissingBrace)
              [] j > 0 /\ ~WordEndAt(s, j + 1, br) -> Fail(j + 1, ErrExtraBrace)
              [] OTHER -> Word("brace", i + 1, j - 1, j + 1)
        Tokens(t) ==
            CASE ~t.ok -> Fail(t.next, t.err)
              [] t.ok /\ s[i] = DQ /\ ~WordEndAt(s, t.next, br) ->
                     Fail(t.next, ErrExtraQuote)
              [] t.ok /\ s[i] = DQ /\ WordEndAt(s, t.next, br) ->
                     Word("quoted", i + 1, t.next - 2, t.next)
              [] OTHER -> Word("bare", i, t.next - 1, t.next)
    IN IF s[i] = LB THEN Braced(MatchBrace(s, i + 1))
       ELSE Tokens(ScanTokens(s, IF s[i] = DQ THEN i + 1 ELSE i,
                              IF s[i] = DQ THEN i ELSE 0, br))

\* Tcl_ParseCommand: the words of one command from i0 on:
\* [ok, next, err, words], next being the position of the command's
\* terminator and words holding, for each word, its kind and the
\* positions of its content.
ScanWords(s, i0, br, words) ==
    LET Word(i, w) ==
            CASE CommandEndAt(s, i, br) ->
                     [ok |-> TRUE, next |-> i, err |-> <<>>, words |-> words]
              [] ~CommandEndAt(s, i, br) /\ ~w.ok ->
                     [ok |-> FALSE, next |-> w.next, err |-> w.err, words |-> words]
              [] OTHER -> ScanWords(s, w.next, br, Append(words, w.word))
    IN Word(SkipWordGap(s, i0), WordAt(s, SkipWordGap(s, i0), br))

\* The commands of a script from i0 on: [ok, next, err].  With br > 0
\* the script is a command substitution and next is the position after
\* its closing bracket.
ScanScript(s, i0, br) ==
    LET Script(i, c) ==
            CASE i > Len(s) /\ br > 0 -> Unscanned(br, ErrMissingBracket)
              [] i > Len(s) /\ br = 0 -> Scanned_(i)
              [] i <= Len(s) /\ br > 0 /\ s[i] = RK -> Scanned_(i + 1)
              [] i <= Len(s) /\ ~(br > 0 /\ s[i] = RK) /\ ~c.ok -> Unscanned(c.next, c.err)
              [] i <= Len(s) /\ ~(br > 0 /\ s[i] = RK) /\ c.ok
                 /\ br > 0 /\ c.next <= Len(s) /\ s[c.next] = RK -> Scanned_(c.next + 1)
              [] OTHER -> ScanScript(s, c.next + 1, br)
    IN Script(SkipCommandGap(s, i0), ScanWords(s, SkipCommandGap(s, i0), br, <<>>))

\* The text ends in a backslash-newline: a line to be continued.
EndsInContinuation(s) == s # <<>> /\ s[Len(s)] = NL /\ Escaped(s, Len(s))

\* Tcl_CommandComplete: no brace, quote or bracket of the text is open and
\* its last line is not continued.
CommandComplete(s) ==
    LET Complete(r) == IF r.ok THEN ~EndsInContinuation(s) ELSE r.err \notin IncompleteErrors
    IN Complete(ScanScript(s, 1, 0))

\* ---------------------------------------------------- Tcl: the interpreter

\* An interpreter: its global variables, what it has written to its
\* standard output, whether that channel's encoding is binary and
\* whether its process still runs; and, of what it
\* has evaluated since it was last observed, how many commands it has run,
\* how many variables it has read and whether it has recorded an error.
NoVars == [x \in {} |-> <<>>]
NewInterp ==
    [vars |-> NoVars, out |-> <<>>, binary |-> FALSE, alive |-> TRUE, ran |-> 0,
     reads |-> 0, logged |-> FALSE]

\* The interpreter, observed from now on.
Observed(st) == [st EXCEPT !.ran = 0, !.reads = 0, !.logged = FALSE]

\* Tcl's return codes, as catch reports them.
TCL_OK == "0"
TCL_ERROR == "1"
TCL_RETURN == "2"
\* Not a Tcl return code: the interpreter's process has exited.
EXITED == "exit"

SetVar(st, name, val) == [st EXCEPT !.vars = (name :> val) @@ @]

Ok(val, st) ==
    [code |-> TCL_OK, val |-> val, st |-> st, ecode |-> <<>>, einfo |-> <<>>]

\* An error not yet recorded in errorInfo (einfo is empty).
Err(msg, ecode, st) ==
    [code |-> TCL_ERROR, val |-> msg, st |-> st, ecode |-> ecode, einfo |-> <<>>]

\* An error as the script that met it records it: the globals errorInfo
\* and errorCode are set.
Logged(r, info) ==
    [r EXCEPT !.einfo = info,
              !.st = SetVar(SetVar([r.st EXCEPT !.logged = TRUE], <<"errorInfo">>, info),
                            <<"errorCode">>, r.ecode)]

WhileExecuting(text) ==
    <<NL, SP, SP, SP, SP, "while", SP, "executing", NL, DQ>> \o text \o <<DQ>>

\* int(text) for the return codes a trailer can hold; -1 for any other text.
StrToInt(a) ==
    IF \E n \in 0..9 : a = <<ToString(n)>>
    THEN CHOOSE n \in 0..9 : a = <<ToString(n)>>
    ELSE -1

\* The value of a braced word: its text, with each backslash-newline (and
\* the blanks after it) replaced by a space.
BraceWord(s) ==
    NonEmpty([q \in 1..Len(s) |->
                 CASE Escaping(s, q) /\ q < Len(s) /\ s[q + 1] = NL -> SP
                   [] s[q] = NL /\ Escaped(s, q) -> ""
                   [] ContinuationBlank(s, q) -> ""
                   [] OTHER -> s[q]])

\* $name: the variable's value, or the error for a variable that is not set.
ReadVar(name, st) ==
    IF name \in DOMAIN st.vars
    THEN Ok(st.vars[name], [st EXCEPT !.reads = @ + 1])
    ELSE Err(<<"can't", SP, "read", SP, DQ>> \o name
             \o <<DQ, ":", SP>> \o Words(<<"no", "such", "variable">>),
             <<"TCL", SP, "LOOKUP", SP, "VARNAME", SP>> \o name,
             [st EXCEPT !.reads = @ + 1])

\* expr, for the operands the requests of this model use.
Expr(text, st) ==
    CASE text = <<"1", SP, "+", SP, "2">> -> Ok(<<"3">>, st)
      [] text = <<"1", SP, "/", SP, "0">> ->
            Err(Words(<<"divide", "by", "zero">>),
                <<"ARITH", SP, "DIVZERO", SP, LB>> \o Words(<<"divide", "by", "zero">>)
                \o <<RB>>, st)
      [] OTHER -> Err(Words(<<"syntax", "error", "in", "expression">>), <<"TCL", SP, "PARSE", SP, "EXPR">>, st)

\* Where Tcl_SubstObj stops next in s[i..to]: at a command or a variable
\* substitution; to + 1 when it stops nowhere.
SubstStop(s, i, to) ==
    FirstOf({k \in i..to : ~Escaped(s, k) /\ (s[k] = LK \/ VarAt(s, k))}, to + 1)

\* The position after the variable substitution that starts at s[j] = "$".
VarEnd(s, j) == IF s[j + 1] = LB THEN FindChar(s, j + 2, RB) + 1 ELSE NameEnd(s, j + 1)

\* The name of the variable substituted at s[j], e = VarEnd(s, j).
VarName(s, j, e) == IF s[j + 1] = LB THEN SubSeq(s, j + 2, e - 2) ELSE SubSeq(s, j + 1, e - 1)

\* The result with the position the substitution goes on from.
Onward(r, next) ==
    [code |-> r.code, val |-> r.val, st |-> r.st, ecode |-> r.ecode, einfo |-> r.einfo,
     next |-> next]

RECURSIVE SubstAt(_, _, _)
\* The bytes the standard output channel writes for a text: UTF-8, or
\* with binary encoding the low byte of each character.
Encode(text, st) ==
    [q \in 1..Len(text) |-> IF text[q] = UML /\ st.binary THEN RAW ELSE text[q]]

RECURSIVE Subst(_, _, _, _, _)
RECURSIVE EvalWords(_, _, _, _, _)
RECURSIVE EvalScript(_, _, _, _)
RECURSIVE Exec(_, _)

\* The command or variable substitution at s[j]:
\* [code, val, st, ecode, einfo, next].
SubstAt(s, j, st) ==
    LET Bracket(b) ==
            IF ~b.ok THEN Onward(Err(b.err, <<"NONE">>, st), j)
            ELSE Onward(EvalScript(SubSeq(s, j + 1, b.next - 2), 1, st, <<>>), b.next)
        Variable(e) == Onward(ReadVar(VarName(s, j, e), st), e)
    IN IF s[j] = LK THEN Bracket(ScanScript(s, j + 1, j)) ELSE Variable(VarEnd(s, j))

\* Tcl_SubstObj over s[i..to], the content of a bare or a quoted word or
\* a whole text (subst, expr): backslash, variable and command
\* substitution, from one command or variable substitution to the next.
\* [code, val, st, ecode, einfo].
Subst(s, i, to, st, acc) ==
    LET Stop(j, pre, r) ==
            CASE j > to -> Ok(pre, st)
              [] j <= to /\ r.code # TCL_OK ->
                     [code |-> r.code, val |-> r.val, st |-> r.st, ecode |-> r.ecode,
                      einfo |-> r.einfo]
              [] OTHER -> Subst(s, r.next, to, r.st, pre \o r.val)
        At(j) == Stop(j, acc \o BackslashSubst(SubSeq(s, i, j - 1)), SubstAt(s, j, st))
    IN At(SubstStop(s, i, to))

\* The value of one word of a command.
WordValue(s, w, st) ==
    IF w.kind = "brace" THEN Ok(BraceWord(SubSeq(s, w.from, w.to)), st)
    ELSE Subst(s, w.from, w.to, st, <<>>)

\* The result with the values of the words substituted so far.
WithWords(r, words) ==
    [code |-> r.code, val |-> r.val, st |-> r.st, ecode |-> r.ecode, einfo |-> r.einfo,
     words |-> words]

\* The words a..b of a command, substituted from left to right:
\* [code, val, st, ecode, einfo, words].
EvalWords(s, w, a, b, st) ==
    LET One(r) == WithWords(r, <<r.val>>)
        Right(l, r) == IF l.code # TCL_OK THEN l ELSE WithWords(r, l.words \o r.words)
        Left(l) == Right(l, EvalWords(s, w, (a + b) \div 2 + 1, b, l.st))
    IN CASE a > b -> WithWords(Ok(<<>>, st), <<>>)
         [] a = b -> One(WordValue(s, w[a], st))
         [] OTHER -> Left(EvalWords(s, w, a, (a + b) \div 2, st))

\* Tcl_EvalEx: the commands of the script from i0 on, one after the other;
\* the result is the last command's.  Each command is parsed, then
\* substituted, then run.  [code, val, st, ecode, einfo].
EvalScript(s, i0, st, last) ==
    LET Run(w) ==
            CASE w.code # TCL_OK ->
                     [code |-> w.code, val |-> w.val, st |-> w.st, ecode |-> w.ecode,
                      einfo |-> w.einfo]
              [] w.code = TCL_OK /\ w.words = <<>> -> Ok(last, w.st)
              [] OTHER -> Exec(w.words, [w.st EXCEPT !.ran = @ + 1])
        Ran(from, c, r) ==
            CASE r.code = TCL_OK -> EvalScript(s, c.next + 1, r.st, r.val)
              [] r.code = TCL_ERROR ->
                     Logged(r, IF r.einfo = <<>>
                               THEN r.val \o WhileExecuting(SubSeq(s, from, c.next - 1))
                               ELSE r.einfo)
              [] OTHER -> r
        Parsed(i, c) ==
            CASE i > Len(s) -> Ok(last, st)
              [] i <= Len(s) /\ ~c.ok ->
                     Logged(Err(c.err, <<"NONE">>, st),
                            c.err \o WhileExecuting(SubSeq(s, SkipWordGap(s, i), c.next)))
              [] OTHER -> Ran(SkipWordGap(s, i), c,
                              Run(EvalWords(s, c.words, 1, Len(c.words), st)))
    IN Parsed(SkipCommandGap(s, i0), ScanWords(s, SkipCommandGap(s, i0), 0, <<>>))

\* The commands of Tcl that the program and the requests of this model
\* use.  w holds the substituted words, w[1] the command's name.
Exec(w, st) ==
    LET n == Len(w)
        cmd == w[1]
        wrongArgs == Err(Words(<<"wrong", "#", "args">>), <<"TCL", SP, "WRONGARGS">>, st)
        badList == Err(Words(<<"unmatched", "open", "brace", "in", "list">>), <<"TCL", SP, "VALUE">>, st)
        body == EvalScript(w[2], 1, st, <<>>)
        k == StrToInt(w[3])
        Invoke(cond, l) ==
    CASE cmd = <<"list">> -> Ok(ListFormat(Tail(w)), st)
      [] cmd = <<"set">> ->
            (CASE n = 3 -> Ok(w[3], SetVar(st, w[2], w[3]))
               [] n = 2 -> ReadVar(w[2], st)
               [] OTHER -> wrongArgs)
      [] cmd = <<"subst">> ->
            (CASE n = 4 /\ w[2] = <<"-nocommands">> /\ w[3] = <<"-novariables">> ->
                      Ok(BackslashSubst(w[4]), st)
               [] n = 2 -> cond
               [] OTHER -> wrongArgs)
      [] cmd = <<"catch">> ->
            (CASE n \notin {2, 3} -> wrongArgs
               [] n \in {2, 3} /\ body.code = EXITED -> body
               [] OTHER -> Ok(<<body.code>>,
                              IF n = 3 THEN SetVar(body.st, w[3], body.val) ELSE body.st))
      [] cmd = <<"if">> ->
            (CASE ~(n = 3 \/ (n = 5 /\ w[4] = <<"else">>)) -> wrongArgs
               [] (n = 3 \/ (n = 5 /\ w[4] = <<"else">>)) /\ cond.code # TCL_OK -> cond
               [] OTHER ->
                     IF StrToInt(cond.val) < 0
                     THEN Err(Words(<<"expected", "boolean", "value">>), <<"TCL", SP, "VALUE">>, cond.st)
                     ELSE IF StrToInt(cond.val) # 0 THEN EvalScript(w[3], 1, cond.st, <<>>)
                     ELSE IF n = 5 THEN EvalScript(w[5], 1, cond.st, <<>>)
                     ELSE Ok(<<>>, cond.st))
      [] cmd = <<"puts">> ->
            (CASE n = 2 -> Ok(<<>>, [st EXCEPT !.out = @ \o Encode(w[2], st) \o <<NL>>])
               [] n = 3 /\ w[2] = <<"-nonewline">> ->
                      Ok(<<>>, [st EXCEPT !.out = @ \o Encode(w[3], st)])
               [] OTHER -> wrongArgs)
      [] cmd = <<"fconfigure">> /\ w = <<cmd, <<"stdout">>, <<"-encoding">>, <<"binary">>>> ->
            Ok(<<>>, [st EXCEPT !.binary = TRUE])
      [] cmd = <<"error">> ->
            IF n \notin {2, 3, 4} THEN wrongArgs
            ELSE [code |-> TCL_ERROR, val |-> w[2], st |-> st,
                  ecode |-> IF n = 4 THEN w[4] ELSE <<"NONE">>,
                  einfo |-> IF n >= 3 THEN w[3] ELSE <<>>]
      [] cmd = <<"return">> ->
            IF n > 2 THEN wrongArgs
            ELSE [code |-> TCL_RETURN, val |-> IF n = 2 THEN w[2] ELSE <<>>, st |-> st,
                  ecode |-> <<>>, einfo |-> <<>>]
      [] cmd = <<"exit">> ->
            [code |-> EXITED, val |-> <<>>, st |-> [st EXCEPT !.alive = FALSE],
             ecode |-> <<>>, einfo |-> <<>>]
      [] cmd = <<"expr">> -> Expr(Join(Tail(w)), st)
      [] cmd = <<"string">> /\ n >= 2 /\ w[2] = <<"cat">> -> Ok(Concat(SubSeq(w, 3, n)), st)
      [] cmd = <<"llength">> ->
            (CASE n # 2 -> wrongArgs
               [] n = 2 /\ l.ok -> Ok(<<ToString(Len(l.elems))>>, st)
               [] OTHER -> badList)
      [] cmd = <<"lindex">> ->
            (CASE n # 3 -> wrongArgs
               [] n = 3 /\ ~l.ok -> badList
               [] OTHER -> Ok(IF k >= 0 /\ k < Len(l.elems) THEN l.elems[k + 1] ELSE <<>>, st))
      [] OTHER -> Err(Words(<<"invalid", "command", "name", DQ>>) \o cmd \o <<DQ>>,
                      <<"TCL", SP, "LOOKUP", SP, "COMMAND", SP>> \o cmd, st)
    IN Invoke(Subst(w[2], 1, Len(w[2]), st, <<>>), ListParse(w[2]))

\* ------------------------------------------------------- QuartusTcl.parse

\* tkinter's Tcl.eval: the script run at the top level of the embedded
\* interpreter.
TkEval(script, tcl) == EvalScript(script, 1, tcl, <<>>)

\* for i in range(length): parsed.append(self.tcl.eval('lindex {} {}'...))
ParseItems(data, length, tcl) ==
    [k \in 1..length |->
        TkEval(<<"lindex", SP>> \o data \o <<SP, ToString(k - 1)>>, tcl).val]

\* parse(data) on the embedded interpreter tcl: [kind, list, tcl], kind
\* being "ok" or the exception raised ("exit" when the embedded
\* interpreter ends the process).  The interpreter keeps what the
\* evaluation of 'list ' + data did to it.
parse(data0, tcl) ==
    LET Items(data, n) ==
            IF n.code = TCL_ERROR \/ StrToInt(n.val) < 0
            THEN [kind |-> "_tkinter.TclError", list |-> <<>>, tcl |-> n.st]
            ELSE [kind |-> "ok", list |-> ParseItems(data, StrToInt(n.val), n.st),
                  tcl |-> n.st]
        Listed(r) ==
            CASE r.code = EXITED -> [kind |-> "exit", list |-> <<>>, tcl |-> r.st]
              [] r.code = TCL_ERROR ->
                     [kind |-> "TclParseError", list |-> <<Strip(data0)>>, tcl |-> r.st]
              [] OTHER -> Items(<<LB>> \o r.val \o <<RB>>,
                                TkEval(<<"llength", SP, LB>> \o r.val \o <<RB>>, r.st))
    IN Listed(TkEval(<<"list", SP>> \o Strip(data0), tcl))

RECURSIVE parse_levels(_, _, _)
RECURSIVE ParseEach(_, _, _, _)

\* parse(part, levels) for each item in turn, on the interpreter the item
\* before it left; the first item that fails ends it.  [kind, list, tcl].
ParseEach(items, levels, tcl, acc) ==
    LET Item(p) ==
            IF p.kind # "ok" THEN p
            ELSE ParseEach(Tail(items), levels, p.tcl, Append(acc, p.list))
    IN IF items = <<>> THEN [kind |-> "ok", list |-> acc, tcl |-> tcl]
       ELSE Item(parse_levels(Head(items), levels, tcl))

\* parse(data, levels): levels 0 is data itself, levels 1 is parse(data),
\* and above that every item of parse(data) is parsed with one level less.
parse_levels(data, levels, tcl) ==
    LET Top(p) ==
            IF p.kind # "ok" \/ levels = 1 THEN p
            ELSE ParseEach(p.list, levels - 1, p.tcl, <<>>)
    IN IF levels = 0 THEN [kind |-> "ok", list |-> data, tcl |-> tcl]
       ELSE Top(parse(data, tcl))

\* ---------------------------------------------------- QuartusTcl.interact

\* hash(x) of a float that holds a whole number of seconds.
Hash(t) == t

\* unique = str(hash(time.time()))
Unique(t) == ToString(Hash(t))

\* The names __init__ sets aside for the wrapped command.
var == "_python_val"
retcode == "_python_ret_code"
sentinel == "_PYTHON_SENTINEL"

\* self.sentinel + '_' + unique + suffix
Sentinel(unique, suffix) == <<sentinel, "_", unique, suffix>>

sentinel_start(unique) == Sentinel(unique, "_START")
sentinel_middle(unique) == Sentinel(unique, "_MIDDLE")
sentinel_end(unique) == Sentinel(unique, "_END")

\* The text of the wrapped command before it is split: the template with
\* its line breaks and indentation, the quoted line and the names filled in.
Template(line, unique) ==
    <<NL, SP, SP, "puts", SP, DQ>> \o sentinel_start(unique) \o <<DQ, SEMI, NL,
      SP, SP, "if", SP, LB, LK, "set", SP, retcode, SP, LK, "catch", SP>>
    \o quote(line)
    \o <<SP, var, RK, RK, RB, SP, LB, NL,
         SP, SP, SP, "puts", SP, LK, "list", SP, DQ>> \o sentinel_middle(unique)
    \o <<DQ, SP, DOL, retcode, SP, DOL, var, NL,
         SP, SP, SP, SP, DOL, "errorCode", SP, DOL, "errorInfo", RK, SEMI, NL,
         SP, SP, RB, SP, "else", SP, LB, NL,
         SP, SP, SP, "puts", SP, LK, "list", SP, DQ>> \o sentinel_middle(unique)
    \o <<DQ, SP, DOL, retcode, SP, DOL, var, RK, SEMI, NL,
         SP, SP, RB, SEMI, NL,
         SP, SP, "puts", SP, DQ>> \o sentinel_end(unique) \o <<DQ, SEMI, NL, SP, SP>>

\* cmd = ' '.join(template.format(**parts).split())
Command(line, unique) == Join(Split(Template(line, unique)))

\* outline.split(' ', 2): the text up to the first space, the text up to
\* the second space and the rest; fewer parts when there are fewer spaces.
SplitTwice(outline) ==
    LET a == FindChar(outline, 1, SP)
        b == IF a = 0 THEN 0 ELSE FindChar(outline, a + 1, SP)
    IN IF a = 0 THEN <<outline>>
       ELSE IF b = 0 THEN <<SubSeq(outline, 1, a - 1), SubSeq(outline, a + 1, Len(outline))>>
       ELSE <<SubSeq(outline, 1, a - 1), SubSeq(outline, a + 1, b - 1),
              SubSeq(outline, b + 1, Len(outline))>>

NoOutcome ==
    [kind |-> "none", value |-> <<>>, list |-> <<>>, message |-> <<>>,
     return_code |-> 0, error_code |-> <<>>, error_info |-> <<>>]

Raised(kind) == [NoOutcome EXCEPT !.kind = kind]

\* The end of interact, after the loop: the trailer is parsed and the
\* result returned or the error raised.  [outcome, tcl].
Decode(accum_end, tcl) ==
    LET Error(p, c) ==
            IF c.kind # "ok" THEN [outcome |-> Raised(c.kind), tcl |-> c.tcl]
            ELSE [outcome |-> [kind |-> "TclError", value |-> <<>>, list |-> <<>>,
                               message |-> p.list[3],
                               return_code |-> StrToInt(p.list[2]),
                               error_code |-> c.list, error_info |-> p.list[5]],
                  tcl |-> c.tcl]
        Trailer(p) ==
            CASE p.kind # "ok" -> [outcome |-> Raised(p.kind), tcl |-> p.tcl]
              [] p.kind = "ok" /\ (Len(p.list) < 2 \/ StrToInt(p.list[2]) < 0) ->
                     [outcome |-> Raised("ValueError"), tcl |-> p.tcl]
              [] p.kind = "ok" /\ Len(p.list) >= 2 /\ StrToInt(p.list[2]) > 0 ->
                     IF Len(p.list) # 5 THEN [outcome |-> Raised("ValueError"), tcl |-> p.tcl]
                     ELSE Error(p, parse(p.list[4], p.tcl))
              [] p.kind = "ok" /\ Len(p.list) = 2 /\ StrToInt(p.list[2]) = 0 ->
                     [outcome |-> Raised("IndexError"), tcl |-> p.tcl]
              [] OTHER -> [outcome |-> [NoOutcome EXCEPT !.kind = "return",
                                                         !.value = p.list[3]],
                           tcl |-> p.tcl]
    IN Trailer(parse(accum_end, tcl))

\* --------------------------------------------------- QuartusTcl.run, run_args

\* [self.quote(str(a)) for a in args]
QuoteAll(args) == [k \in 1..Len(args) |-> quote(args[k])]

RECURSIVE Format(_, _)
\* cmd.format(*args): each replacement field {} takes the next argument.
Format(cmd, args) ==
    LET j == FirstOf({k \in 1..(Len(cmd) - 1) : cmd[k] = LB /\ cmd[k + 1] = RB}, 0)
    IN IF j = 0 \/ args = <<>> THEN cmd
       ELSE SubSeq(cmd, 1, j - 1) \o Head(args)
            \o Format(SubSeq(cmd, j + 2, Len(cmd)), Tail(args))

\* The line run(cmd, *args) passes to interact.
run(cmd, args) == IF args # <<>> THEN Format(cmd, QuoteAll(args)) ELSE cmd

\* The flags as they would be if the values were not quoted.
FlagsBare(kwargs) ==
    Concat([k \in 1..Len(kwargs) |-> << <<"-">> \o kwargs[k][1], kwargs[k][2] >>])

\* for k, v in kwargs.items(): args.append('-' + k); args.append(quote(str(v)))
Flags(kwargs) ==
    Concat([k \in 1..Len(kwargs) |-> << <<"-">> \o kwargs[k][1], quote(kwargs[k][2]) >>])

\* The line run_args(cmd, *args, **kwargs) passes to run, which passes it
\* on to interact unchanged.
run_args(cmd, args, kwargs) == run(Join(<<cmd>> \o QuoteAll(args) \o Flags(kwargs)), <<>>)

\* The names Python finds on a session without calling __getattr__: the
\* attributes __init__ sets on the instance, and the methods of the class.
Attributes ==
    {<<"debug">>, <<"var">>, <<"retcode">>, <<"sentinel">>, <<"tcl">>, <<"process">>}
Methods == {<<"interact">>, <<"parse">>, <<"quote">>, <<"run">>, <<"run_args">>}

\* session.name: what the attribute reference finds.  __getattr__ is
\* called only for a name that the instance and the class do not have.
Lookup(name) ==
    IF name \in Attributes THEN "attribute"
    ELSE IF name \in Methods THEN "method"
    ELSE "__getattr__"

\* __getattr__(attr)(*args, **kwargs)
getattr(attr, args, kwargs) == run_args(attr, args, kwargs)

\* The line a request passes to interact.
LineOf(req) ==
    IF req.api = "interact" THEN req.cmd
    ELSE IF req.api = "run" THEN run(req.cmd, req.args)
    ELSE IF req.api = "run_args" THEN run_args(req.cmd, req.args, req.kwargs)
    ELSE getattr(req.cmd, req.args, req.kwargs)

\* ------------------------------------------------------------- the session

VARIABLES
    now,        \* the wall clock: what time.time() returns
    debug,      \* self.debug
    closed,     \* the session has been closed
    pc,         \* "idle": no request runs; "reading": interact is in its loop
    req,        \* the request that runs, or ran last
    issued,     \* the unique strings of the requests issued so far, in order
    unique,     \* interact's local: the request's identifier
    state,      \* interact's local: 0 before the start sentinel, 1 before
                \* the middle sentinel, 2 before the end sentinel
    error,      \* interact's local: the return code read from the middle line
    accum,      \* interact's local: the output captured in state 1
    accum_end,  \* interact's local: the trailer captured from the middle line on
    seen,       \* the sentinels the request has matched so far, in order
    outcome,    \* what the last request returned or raised
    prior,      \* the kind of what the request before it returned or raised
    tcl,        \* self.tcl: the embedded interpreter
    stdin,      \* the text written to the subprocess and not yet read by it
    shellBuf,   \* the lines the shell has read of a command not yet complete
    shell,      \* the Tcl shell: self.process
    stdout,     \* the text written by the shell and not yet read by interact
    owner,      \* for each atom of stdout, the request whose line printed it
                \* (0 for what the shell printed when it started)
    foreign,    \* interact has matched or captured a line of another request
    eofReads,   \* reads of this request that met the end of the stream
    stderr,     \* sys.stderr: the lines printed to it
    fin,        \* the input of the function under check
    fout        \* its result

sessionVars == <<now, debug, closed, pc, req, issued, unique, state, error, accum,
                 accum_end, seen, outcome, prior, tcl, stdin, shellBuf, shell, stdout,
                 owner, foreign, eofReads, stderr>>

vars == <<sessionVars, fin, fout>>

NoRequest == [api |-> "none", cmd |-> <<>>, args |-> <<>>, kwargs |-> <<>>]

Interact(cmd) == [api |-> "interact", cmd |-> cmd, args |-> <<>>, kwargs |-> <<>>]

Repeat(x, n) == [k \in 1..n |-> x]

\* __init__(args, debug): the subprocess is started and nothing has been
\* sent to it; banner is what the shell prints when it starts.
NewSession(d, banner) ==
    /\ now = 0
    /\ debug = d
    /\ closed = FALSE
    /\ pc = "idle"
    /\ req = NoRequest
    /\ issued = <<>>
    /\ unique = ""
    /\ state = 0
    /\ error = 0
    /\ accum = <<>>
    /\ accum_end = <<>>
    /\ seen = <<>>
    /\ outcome = NoOutcome
    /\ prior = "none"
    /\ tcl = NewInterp
    /\ stdin = <<>>
    /\ shellBuf = <<>>
    /\ shell = NewInterp
    /\ stdout = banner
    /\ owner = Repeat(0, Len(banner))
    /\ foreign = FALSE
    /\ eofReads = 0
    /\ stderr = <<>>

\* A session on tclsh, which prints nothing when it starts, without debug.
InitSession == NewSession(FALSE, <<>>)

\* Time passes between two requests.
Tick ==
    /\ pc = "idle"
    /\ now < MaxClock
    /\ now' = now + 1
    /\ UNCHANGED <<debug, closed, pc, req, issued, unique, state, error, accum, accum_end,
                   seen, outcome, prior, tcl, stdin, shellBuf, shell, stdout, owner,
                   foreign, eofReads, stderr, fin, fout>>

\* print(text, file=sys.stderr), and a step that prints nothing.
Traced(watched, text) == IF watched THEN stderr' = Append(stderr, text) ELSE TRUE
Untraced(watched) == IF watched THEN stderr' = stderr ELSE TRUE

\* What debug prints for the line sent and for a line read (rstripped).
TraceIn(text) == <<"(tcl)", SP, "<<<", SP>> \o text
TraceOut(text) ==
    LET live == {i \in 1..Len(text) : text[i] \notin Whitespace}
        rstrip == IF live = {} THEN <<>> ELSE SubSeq(text, 1, Max(live))
    IN <<"(tcl)", SP, ">>>", SP>> \o rstrip

\* interact as it would be if, with debug on, the line were sent as it is
\* traced.
SendAsTraced(r, d, shut, watched) ==
    /\ pc = "idle"
    /\ Len(issued) < MaxRequests
    /\ req' = r
    /\ prior' = outcome.kind
    /\ IF d THEN Traced(watched, TraceIn(LineOf(r))) ELSE Untraced(watched)
    /\ IF shut
       THEN /\ outcome' = Raised("ValueError")
            /\ UNCHANGED <<pc, issued, unique, state, error, accum, accum_end, seen, stdin,
                           foreign, eofReads>>
       ELSE /\ unique' = Unique(now)
            /\ issued' = Append(issued, Unique(now))
            /\ stdin' = stdin
                        \o Command(IF d THEN TraceIn(LineOf(r)) ELSE LineOf(r), Unique(now))
                        \o <<NL>>
            /\ accum' = <<>>
            /\ accum_end' = <<>>
            /\ error' = 0
            /\ state' = 0
            /\ seen' = <<>>
            /\ pc' = "reading"
            /\ outcome' = NoOutcome
            /\ foreign' = FALSE
            /\ eofReads' = 0
    /\ UNCHANGED <<now, debug, closed, tcl, shellBuf, shell, stdout, owner, fin, fout>>

\* interact, up to its loop, on a session whose debug flag is d and whose
\* stream is shut when shut holds: the wrapped command is written to the
\* subprocess.  Writing to a stream that is shut raises ValueError.  watched
\* says whether the step is taken with sys.stderr in view.
SendWith(r, d, shut, watched) ==
    /\ pc = "idle"
    /\ Len(issued) < MaxRequests
    /\ req' = r
    /\ prior' = outcome.kind
    /\ IF d THEN Traced(watched, TraceIn(LineOf(r))) ELSE Untraced(watched)
    /\ IF shut
       THEN /\ outcome' = Raised("ValueError")
            /\ UNCHANGED <<pc, issued, unique, state, error, accum, accum_end, seen, stdin,
                           foreign, eofReads>>
       ELSE /\ unique' = Unique(now)
            /\ issued' = Append(issued, Unique(now))
            /\ stdin' = stdin \o Command(LineOf(r), Unique(now)) \o <<NL>>
            /\ accum' = <<>>
            /\ accum_end' = <<>>
            /\ error' = 0
            /\ state' = 0
            /\ seen' = <<>>
            /\ pc' = "reading"
            /\ outcome' = NoOutcome
            /\ foreign' = FALSE
            /\ eofReads' = 0
    /\ UNCHANGED <<now, debug, closed, tcl, shellBuf, shell, stdout, owner, fin, fout>>

\* interact as it would be if a closed session still wrote to its stream.
SendOpen(r) == SendWith(r, debug, FALSE, TRUE)

\* A request is made on the session.
Send(r) == SendWith(r, debug, closed, TRUE)

\* tclsh reads one line, and runs what it has read once that is a complete
\* command; what the command prints goes to the pipe.  A command that
\* fails at the top level prints its message to stderr, which is discarded.
ShellStep ==
    /\ shell.alive
    /\ FindChar(stdin, 1, NL) > 0
    /\ LET Read(k, buf) ==
               /\ stdin' = SubSeq(stdin, k + 1, Len(stdin))
               /\ IF CommandComplete(buf)
                  THEN LET Ran(r) ==
                               /\ shellBuf' = <<>>
                               /\ shell' = [r.st EXCEPT !.out = <<>>]
                               /\ stdout' = stdout \o r.st.out
                               /\ owner' = owner \o Repeat(Len(issued), Len(r.st.out))
                       IN Ran(EvalScript(buf, 1, Observed(shell), <<>>))
                  ELSE /\ shellBuf' = buf
                       /\ UNCHANGED <<shell, stdout, owner>>
       IN Read(FindChar(stdin, 1, NL), shellBuf \o SubSeq(stdin, 1, FindChar(stdin, 1, NL)))
    /\ UNCHANGED <<now, debug, closed, pc, req, issued, unique, state, error, accum,
                   accum_end, seen, outcome, prior, tcl, foreign, eofReads, stderr,
                   fin, fout>>

\* What the request returns once interact has returned: run, run_args and
\* the dispatched commands parse the result as a list.
Finish(d) ==
    LET Parsed(p) ==
            IF p.kind # "ok" THEN [outcome |-> Raised(p.kind), tcl |-> p.tcl]
            ELSE [outcome |-> [NoOutcome EXCEPT !.kind = "list", !.list = p.list],
                  tcl |-> p.tcl]
    IN IF req.api = "interact" \/ d.outcome.kind # "return" THEN d
       ELSE Parsed(parse(d.outcome.value, d.tcl))

\* The tests of interact's loop on the line read (AtEndNever: the last of
\* them as it would be if it looked for the start sentinel again).
AtStart(st, outline, u) == st = 0 /\ EndsWith(Strip(outline), sentinel_start(u))
AtMiddle(st, outline, u) == st = 1 /\ StartsWith(outline, sentinel_middle(u))
AtEndNever(st, outline, u) == st = 2 /\ StartsWith(outline, sentinel_start(u))
AtEnd(st, outline, u) == st = 2 /\ StartsWith(outline, sentinel_end(u))

\* One turn of interact's loop on a session whose debug flag is d: a line
\* is read, decoded and handled by the state; at the end sentinel the loop
\* ends and the request returns or raises.  At the end of the stream
\* readline returns what is left, at last the empty string, without
\* blocking.  watched says whether sys.stderr is in view.
ReadLineWith(d, watched) ==
    /\ pc = "reading"
    /\ FindChar(stdout, 1, NL) > 0 \/ ~shell.alive
    /\ LET k == IF FindChar(stdout, 1, NL) > 0 THEN FindChar(stdout, 1, NL) ELSE Len(stdout)
           outline == SubSeq(stdout, 1, k)
           mine == \A i \in 1..k : owner[i] = Len(issued)
           parts == SplitTwice(outline)
           Return(r) == /\ outcome' = r.outcome
                        /\ tcl' = r.tcl
       IN /\ stdout' = SubSeq(stdout, k + 1, Len(stdout))
          /\ owner' = SubSeq(owner, k + 1, Len(owner))
          /\ eofReads' = IF FindChar(stdout, 1, NL) = 0 /\ eofReads < 2
                         THEN eofReads + 1 ELSE eofReads
          /\ IF \E i \in 1..k : outline[i] = RAW       \* decode() fails
             THEN /\ outcome' = Raised("UnicodeDecodeError")
                  /\ pc' = "idle"
                  /\ Untraced(watched)
                  /\ UNCHANGED <<state, error, accum, accum_end, seen, tcl, foreign>>
             ELSE IF AtStart(state, outline, unique)
             THEN /\ state' = 1
                  /\ seen' = Append(seen, "start")
                  /\ foreign' = (foreign \/ ~mine)
                  /\ Untraced(watched)
                  /\ UNCHANGED <<pc, error, accum, accum_end, outcome, tcl>>
             ELSE IF AtMiddle(state, outline, unique)
             THEN /\ foreign' = (foreign \/ ~mine)
                  /\ seen' = Append(seen, "middle")
                  /\ IF Len(parts) < 3 \/ StrToInt(parts[2]) < 0
                     THEN /\ outcome' = Raised("ValueError")
                          /\ pc' = "idle"
                          /\ accum_end' = accum_end \o outline
                          /\ Untraced(watched)
                          /\ UNCHANGED <<state, error, accum, tcl>>
                     ELSE /\ accum_end' = accum_end \o outline
                          /\ error' = StrToInt(parts[2])
                          /\ state' = 2
                          /\ IF d /\ parts[3] # <<>> /\ StrToInt(parts[2]) = 0
                             THEN Traced(watched, TraceOut(parts[3]))
                             ELSE Untraced(watched)
                          /\ UNCHANGED <<pc, accum, outcome, tcl>>
             ELSE IF state = 1
             THEN /\ accum' = accum \o outline
                  /\ foreign' = (foreign \/ ~mine)
                  /\ IF d /\ outline # <<>>
                     THEN Traced(watched, TraceOut(outline))
                     ELSE Untraced(watched)
                  /\ UNCHANGED <<pc, state, error, accum_end, seen, outcome, tcl>>
             ELSE IF AtEnd(state, outline, unique)
             THEN /\ Return(Finish(Decode(accum_end, Observed(tcl))))
                  /\ pc' = "idle"
                  /\ seen' = Append(seen, "end")
                  /\ foreign' = (foreign \/ ~mine)
                  /\ Untraced(watched)
                  /\ UNCHANGED <<state, error, accum, accum_end>>
             ELSE IF state = 2
             THEN /\ accum_end' = accum_end \o outline
                  /\ foreign' = (foreign \/ ~mine)
                  /\ IF d /\ outline # <<>> /\ error = 0
                     THEN Traced(watched, TraceOut(outline)) ELSE Untraced(watched)
                  /\ UNCHANGED <<pc, state, error, accum, seen, outcome, tcl>>
             ELSE /\ Untraced(watched)
                  /\ UNCHANGED <<pc, state, error, accum, accum_end, seen, outcome, tcl,
                                 foreign>>
    /\ UNCHANGED <<now, debug, closed, req, prior, issued, unique, stdin, shellBuf, shell,
                   fin, fout>>

\* interact reads a line.
ReadLine == ReadLineWith(debug, TRUE)

\* close(): the subprocess is terminated and its streams are released; a
\* second close changes nothing.  Leaving a with block calls it.
close ==
    /\ pc = "idle"
    /\ closed' = TRUE
    /\ shell' = [shell EXCEPT !.alive = FALSE]
    /\ stdin' = <<>>
    /\ stdout' = <<>>
    /\ owner' = <<>>
    /\ shellBuf' = <<>>
    /\ UNCHANGED <<now, debug, pc, req, issued, unique, state, error, accum, accum_end,
                   seen, outcome, prior, tcl, foreign, eofReads, stderr, fin, fout>>

Run(cmd, args) == [api |-> "run", cmd |-> cmd, args |-> args, kwargs |-> <<>>]

RunArgs(cmd, args) == [api |-> "run_args", cmd |-> cmd, args |-> args, kwargs |-> <<>>]

Dispatch(attr, args) == [api |-> "getattr", cmd |-> attr, args |-> args, kwargs |-> <<>>]

\* The commands the callers send through interact.
Lines ==
    { <<"expr", SP, "1", SP, "+", SP, "2">>,
      <<"expr", SP, "1", SP, "/", SP, "0">>,
      <<"expr", SP, "1", SP, "+", SP, "2", SP, LB>>,
      <<"expr", SP, "1", SP, BS>>,
      <<"string", SP, "cat", SP, DQ, BS, LB, SP, DQ>>,
      <<"puts", SP, "k">>,
      <<"error", SP, "k", SP, DQ, "j", BS, LB, SP, DQ, SP, LB, "X", SP, "Y", RB>>,
      <<"return", SP, "k">>,
      <<"error", SP, "k", SP, "j", SP, DQ, LB, DQ>>,
      <<"exit">> }

\* The arguments the callers pass to be quoted.
Arguments == { <<"k">>, <<"k", SP, SP, "j">>, <<BS>>, <<DOL, "k">>, <<LB>> }

ListOf == <<"list", SP, LB, RB>>

Requests ==
    { Interact(l) : l \in Lines }
    \cup { Run(ListOf, <<x>>) : x \in Arguments }
    \cup { RunArgs(<<"list">>, <<x>>) : x \in Arguments }
    \cup { Dispatch(<<"expr">>, <<<<"1">>, <<"+">>, <<"2">>>>) }

\* No function is under check.
NoResult == [op |-> "none"]

Init ==
    /\ InitSession
    /\ fin = <<>>
    /\ fout = NoResult

Next ==
    \/ Tick
    \/ \E r \in Requests : Send(r)
    \/ ShellStep
    \/ ReadLine
    \/ close

Spec == Init /\ [][Next]_vars

\* ------------------------------------------------- the functions, on their own

\* The texts of at most n atoms over the alphabet A.
Texts(A, n) == UNION {[1..k -> A] : k \in 0..n}

\* The characters callers pass to quote: an ordinary one, the blank, and
\* the ones Tcl's grammar gives a meaning to.
QuoteAlphabet == {"k", SP, LB, RB, BS, DOL, LK, RK}

\* quote(fin), and what the shell makes of it as a word of a command.
QuoteStep ==
    /\ fout = NoResult
    /\ LET Word(text, r) ==
               fout' = [op |-> "quote", text |-> text, code |-> r.code, val |-> r.val]
       IN Word(quote(fin), EvalScript(<<"set", SP, "r", SP>> \o quote(fin), 1, NewInterp, <<>>))
    /\ UNCHANGED <<fin, sessionVars>>

InitQuote ==
    /\ InitSession
    /\ fin \in Texts(QuoteAlphabet, MaxLen)
    /\ fout = NoResult

NextQuote == QuoteStep

SpecQuote == InitQuote /\ [][NextQuote]_vars

\* The characters of the texts passed to parse.
ParseAlphabet == {"k", SP, LB, RB, BS, DQ, DOL, LK, RK}

\* Texts with a whole command substitution or a command separator in them.
ParseExamples ==
    { <<LK, "set", SP, "k", SP, "1", RK>>,
      <<"k", SP, LK, "set", SP, "k", SP, "1", RK>>,
      <<LB, LK, "set", SP, "k", SP, "1", RK, RB>>,
      <<DQ, "k", SP, "j", DQ, SP, "2", SP, "3">>,
      <<LB, "k", RB, SEMI, "list">>,
      <<LB, "1", SP, "2", RB, SP, LB, "3", SP, "4", RB, SP, LB, "5", SP, "6", RB>> }

\* parse(fin) on a session just made.
ParseStep ==
    /\ fout = NoResult
    /\ LET Parsed(p) ==
               fout' = [op |-> "parse", kind |-> p.kind, list |-> p.list, tcl |-> p.tcl]
       IN Parsed(parse(fin, Observed(tcl)))
    /\ UNCHANGED <<fin, sessionVars>>

\* parse(fin, levels) on a session just made.
ParseLevelsStep ==
    /\ fout = NoResult
    /\ \E levels \in 0..MaxLevels :
          LET Parsed(p) ==
                  fout' = [op |-> "parse_levels", levels |-> levels, kind |-> p.kind,
                           list |-> p.list, tcl |-> p.tcl]
          IN Parsed(parse_levels(fin, levels, Observed(tcl)))
    /\ UNCHANGED <<fin, sessionVars>>

InitParse ==
    /\ InitSession
    /\ fin \in Texts(ParseAlphabet, MaxLen) \cup ParseExamples
    /\ fout = NoResult

NextParse ==
    \/ ParseStep
    \/ ParseLevelsStep

SpecParse == InitParse /\ [][NextParse]_vars


\* The commands, arguments and flags the callers pass to the facade.
FacadeValues == {<<"Foo", SP, "Bar">>, <<LB>>}
FacadeKeys == {<<"hardware_name">>, <<"device_name">>}

\* The keyword arguments of a call: a mapping in insertion order.
FacadeFlags ==
    {<<>>}
    \cup {<< <<k, v>> >> : k \in FacadeKeys, v \in FacadeValues}
    \cup {f \in {<< <<k, v>>, <<j, w>> >> : k \in FacadeKeys, j \in FacadeKeys,
                                            v \in FacadeValues, w \in FacadeValues} :
             f[1][1] # f[2][1]}

FacadeCalls ==
    [cmd : {<<"get_device_names">>, <<"expr">>, <<"list">>, <<"var">>, <<"process">>,
            <<"quote">>},
     args : Texts(FacadeValues, MaxLen),
     kwargs : FacadeFlags]

\* run_args(cmd, *args, **kwargs): the line it passes on to interact.
RunArgsStep ==
    /\ fout = NoResult
    /\ fout' = [op |-> "run_args", line |-> run_args(fin.cmd, fin.args, fin.kwargs)]
    /\ UNCHANGED <<fin, sessionVars>>

\* session.cmd(*args, **kwargs): the attribute is looked up and what is
\* found is called.  An attribute that is no method cannot be called.
GetattrStep ==
    /\ fout = NoResult
    /\ fout' = CASE Lookup(fin.cmd) = "attribute" ->
                       [op |-> "getattr", kind |-> "TypeError", line |-> <<>>]
                  [] Lookup(fin.cmd) = "method" ->
                       [op |-> "getattr", kind |-> "method", line |-> <<>>]
                  [] OTHER ->
                       [op |-> "getattr", kind |-> "call",
                        line |-> getattr(fin.cmd, fin.args, fin.kwargs)]
    /\ UNCHANGED <<fin, sessionVars>>

InitFacade ==
    /\ InitSession
    /\ fin \in FacadeCalls
    /\ fout = NoResult

NextFacade ==
    \/ RunArgsStep
    \/ GetattrStep

SpecFacade == InitFacade /\ [][NextFacade]_vars

\* ------------------------------------------------ the stream, with tracing

\* Commands whose output is a result, a printed line, an error with its
\* trace, and lines that are no UTF-8.
StreamRequests ==
    { Interact(l) : l \in {
      <<"expr", SP, "1", SP, "+", SP, "2">>,
      <<"puts", SP, "k">>,
      <<"expr", SP, "1", SP, "/", SP, "0">>,
      <<"fconfigure", SP, "stdout", SP, "-encoding", SP, "binary", SEMI, SP,
        "puts", SP, BS, "xff", SEMI, SP, "puts", SP, BS, "xff">> } }

\* A session with or without debug, on a shell that prints nothing when
\* it starts (tclsh) or prints a banner.
InitStream ==
    /\ \E d \in BOOLEAN, banner \in {<<>>, <<"Info:", SP, "banner", NL>>} :
          NewSession(d, banner)
    /\ fin = <<>>
    /\ fout = NoResult

NextStream ==
    \/ Tick
    \/ \E r \in StreamRequests : Send(r)
    \/ ShellStep
    \/ ReadLine

\* The shell runs the lines it is sent, and interact's loop reads the
\* lines there are to read: weak fairness of ShellStep and of ReadLine,
\* each written out with the guard of the action for its enabledness (the
\* shell has a whole line to run; the loop has a line to read).
SpecStream ==
    /\ InitStream
    /\ [][NextStream]_vars
    /\ \/ []<>(~(shell.alive /\ FindChar(stdin, 1, NL) > 0))
       \/ []<><<ShellStep>>_vars
    /\ \/ []<>(~(pc = "reading" /\ (FindChar(stdout, 1, NL) > 0 \/ ~shell.alive)))
       \/ []<><<ReadLine>>_vars
\* -------------------------------------------------------------- properties

errorCode == <<"errorCode">>
errorInfo == <<"errorInfo">>

\* The request has been through the shell, and interact has returned or
\* raised: the shell's variables are as the request's command left them.
Done ==
    /\ pc = "idle"
    /\ ~closed
    /\ req # NoRequest
    /\ outcome.kind # "none"
    /\ <<retcode>> \in DOMAIN shell.vars

\* C1. When the command of a request completes in the shell with return
\* code 0, interact returns the command's result value, exactly.
C1_ReturnsResult ==
    (Done /\ req.api = "interact" /\ shell.vars[<<retcode>>] = <<TCL_OK>>)
        => (outcome.kind = "return" /\ outcome.value = shell.vars[<<var>>])

\* C2. When the command of a request ends in the shell with a nonzero
\* return code, interact raises TclError with the command's message, the
\* return code, the shell's errorCode as a list and the shell's errorInfo.
C2_RaisesError ==
    (Done /\ req.api = "interact" /\ shell.vars[<<retcode>>] # <<TCL_OK>>)
        => /\ outcome.kind = "TclError"
           /\ outcome.message = shell.vars[<<var>>]
           /\ outcome.return_code = StrToInt(shell.vars[<<retcode>>])
           /\ outcome.error_code = ListParse(shell.vars[errorCode]).elems
           /\ outcome.error_info = shell.vars[errorInfo]

C4_DistinctSentinels ==
    \A i, j \in 1..Len(issued) :
        i # j => /\ sentinel_start(issued[i]) # sentinel_start(issued[j])
                 /\ sentinel_middle(issued[i]) # sentinel_middle(issued[j])
                 /\ sentinel_end(issued[i]) # sentinel_end(issued[j])

\* C5. Once a read of the request has met the end of the shell's output,
\* the request is over and has raised the transport error.
C5_EofRaises ==
    eofReads > 0 => (pc = "idle" /\ outcome.kind = "TransportError")

\* C6. The shell evaluates quote(x), as a word of a command, to x; and
\* when x holds no brace, quote(x) is x between one pair of braces.
C6_QuoteLossless ==
    fout.op = "quote"
        => /\ fout.code = TCL_OK
           /\ fout.val = fin
           /\ (~Contains(fin, LB) /\ ~Contains(fin, RB) => fout.text = <<LB>> \o fin \o <<RB>>)

\* C7. A request that passes its arguments to the shell's list command,
\* through run's placeholders or as run_args' positional arguments,
\* returns the list of those arguments.
C7_RoundTrip ==
    (Done /\ req.api \in {"run", "run_args"})
        => (outcome.kind = "list" /\ outcome.list = req.args)

\* C8. Every line interact sends is a complete script: the shell is never
\* left waiting for the rest of a command.
C8_CompleteScript == shellBuf = <<>>

\* C9. When the request before it raised TclError, the TclError a request
\* raises is for an error its own command recorded in the shell.
C9_OwnError ==
    (Done /\ prior = "TclError" /\ outcome.kind = "TclError") => shell.logged

\* The variables of an interpreter other than the two Tcl itself sets.
UserVars(st) == DOMAIN st.vars \ {errorCode, errorInfo}

\* C10. parse reads no variable, sets none and runs no command but its
\* own list and llength.
C10_NoSubstitution ==
    fout.op = "parse"
        => /\ fout.tcl.reads = 0
           /\ UserVars(fout.tcl) = {}
           /\ (fout.kind = "ok" => fout.tcl.ran = 2)


\* C11. For every malformed list text parse raises TclParseError, which
\* carries the text; it returns no list and raises nothing else.  A text
\* is malformed when Tcl's list grammar rejects it (a brace or a quote is
\* left open, or text follows a closing one), or when it ends in a
\* backslash that nothing escapes.
C11_ParseError ==
    LET MalformedList(s) ==
            \/ ~ListParse(s).ok
            \/ (s # <<>> /\ Escaping(s, Len(s)))
    IN (fout.op = "parse" /\ MalformedList(fin))
           => (fout.kind = "TclParseError" /\ fout.list = <<Strip(fin)>>)

RECURSIVE Nested(_, _)
\* The list text s read to the given number of levels by Tcl's list
\* grammar: the text itself at level 0, its elements at level 1, and
\* above that each element read with one level less.
Nested(s, levels) ==
    IF levels = 0 THEN s
    ELSE [k \in 1..Len(ListParse(s).elems) |-> Nested(ListParse(s).elems[k], levels - 1)]

RECURSIVE WellFormed(_, _)
\* The text is a list down to the given number of levels.
WellFormed(s, levels) ==
    \/ levels = 0
    \/ /\ ListParse(s).ok
       /\ \A k \in 1..Len(ListParse(s).elems) : WellFormed(ListParse(s).elems[k], levels - 1)

\* C12. parse(text, levels) of a text that is a list down to that level
\* returns the text itself at level 0, its top-level elements at level 1
\* (a braced or quoted element in one piece), and above that each element
\* parsed with one level less.
C12_ParseLevels ==
    (fout.op = "parse_levels" /\ WellFormed(fin, fout.levels))
        => (fout.kind = "ok" /\ fout.list = Nested(fin, fout.levels))

\* C13. The line run_args passes on to interact is the bare command name,
\* each positional argument quoted, in order, and for each flag, in
\* insertion order, -key and its quoted value, with one space between them.
C13_CommandString ==
    LET CommandString(cmd, args, kwargs) ==
            cmd
            \o Concat([k \in 1..Len(args) |-> <<SP>> \o quote(args[k])])
            \o Concat([k \in 1..Len(kwargs) |->
                          <<SP, "-">> \o kwargs[k][1] \o <<SP>> \o quote(kwargs[k][2])])
    IN fout.op = "run_args" => fout.line = CommandString(fin.cmd, fin.args, fin.kwargs)

\* get_device_names(hardware_name="Foo Bar") has been built as
\* get_device_names -hardware_name {Foo Bar}.
C13_Witness ==
    /\ fout.op = "run_args"
    /\ fin = [cmd |-> <<"get_device_names">>, args |-> <<>>,
              kwargs |-> << <<<<"hardware_name">>, <<"Foo", SP, "Bar">>>> >>]
    /\ fout.line = <<"get_device_names", SP, "-", "hardware_name", SP,
                     LB, "Foo", SP, "Bar", RB>>

\* C14. A command called by name with positional arguments, through
\* run_args or as an attribute of the session, returns the command's
\* result value as interact returns it: a string, not a list.
C14_PlainResult ==
    (Done /\ req.api \in {"run_args", "getattr"} /\ shell.vars[<<retcode>>] = <<TCL_OK>>)
        => (outcome.kind = "return" /\ outcome.value = shell.vars[<<var>>])

\* C15. A name that is not a method of the session, called as an
\* attribute, is dispatched to run_args: the call passes on the line
\* run_args builds for that name, whatever the name.
C15_GenericDispatch ==
    (fout.op = "getattr" /\ fin.cmd \notin Methods)
        => (fout.kind = "call" /\ fout.line = run_args(fin.cmd, fin.args, fin.kwargs))

\* C16. A request matches its start, middle and end sentinels in that
\* order, and returns or raises only once it has matched all three; so
\* when a request is written, nothing printed for an earlier request is
\* still unread.
C16_PhasesForward ==
    /\ seen \in {<<>>, <<"start">>, <<"start", "middle">>, <<"start", "middle", "end">>}
    /\ (pc = "idle" /\ outcome.kind # "none" /\ ~closed)
           => seen = <<"start", "middle", "end">>
    /\ \A i \in 1..Len(owner) : owner[i] \in {0, Len(issued)}

\* C17. A line read before the request has matched its start sentinel is
\* discarded: the request goes on reading, and the line changes neither
\* the captured output, the trailer and its return code, nor the outcome.
C17_StaleDiscarded ==
    [][(pc = "reading" /\ state = 0 /\ state' = 0 /\ stdout' # stdout)
          => /\ pc' = "reading"
             /\ outcome' = outcome
             /\ accum' = accum
             /\ accum_end' = accum_end
             /\ error' = error]_vars

\* C18. Once the shell has printed the request's three sentinel lines in
\* order, whatever lines come before and between them, the request ends;
\* and while the shell is running and there is no line to read the
\* request does not end and has no outcome.
C18_Terminates ==
    /\ (/\ pc = "reading"
        /\ state = 0
        /\ LET Has(lines) ==
                   \E i, j, k \in 1..Len(lines) :
                      /\ i < j
                      /\ j < k
                      /\ EndsWith(Strip(lines[i]), sentinel_start(unique))
                      /\ StartsWith(lines[j], sentinel_middle(unique))
                      /\ StartsWith(lines[k], sentinel_end(unique))
               Cut(ends) ==
                   [m \in 1..Len(ends) |->
                       SubSeq(stdout, IF m = 1 THEN 1 ELSE ends[m - 1] + 1, ends[m])]
           IN Has(Cut(Sorted({i \in 1..Len(stdout) : stdout[i] = NL}))))
           ~> (pc = "idle")
    /\ []((pc = "reading" /\ shell.alive /\ FindChar(stdout, 1, NL) = 0)
             => outcome = NoOutcome)
    /\ [][(pc = "reading" /\ shell.alive /\ FindChar(stdout, 1, NL) = 0)
             => (pc' = "reading" /\ outcome' = outcome)]_vars

\* A request has ended after a printed line and the three sentinel lines.
C18_Witness ==
    /\ pc = "idle"
    /\ outcome.kind = "return"
    /\ seen = <<"start", "middle", "end">>
    /\ accum # <<>>
    /\ Len(issued) = 1

\* C19. Every step of a session is, but for what it prints to sys.stderr,
\* a step of the session whose debug flag is the other way round: both
\* send the same lines and end their requests the same way.
C19_DebugSideChannel ==
    [][/\ \A r \in StreamRequests :
             SendWith(r, debug, closed, TRUE) => SendWith(r, ~debug, closed, FALSE)
       /\ ReadLineWith(debug, TRUE) => ReadLineWith(~debug, FALSE)]_vars

\* With debug on, a request has returned and its line and output are on
\* sys.stderr.
C19_Witness ==
    /\ debug
    /\ pc = "idle"
    /\ outcome.kind = "return"
    /\ Len(stderr) >= 2
====
